---- MODULE Spec2Model ----
(***************************************************************************)
(* A model of statsig.py: the error metrics rmse, mae and me with their    *)
(* confidence bounds, the population standard deviation helper, and the    *)
(* __main__ driver (registry construction, metric loop, pairwise loop).    *)
(*                                                                         *)
(* numpy float64 values are modelled as decimal fixed-point numbers with   *)
(* SCALE units per 1.0, together with the special values nan and +-inf.    *)
(* Every arithmetic operation rounds its result toward zero to a multiple  *)
(* of 1/SCALE.  Additions and subtractions are exact.                      *)
(***************************************************************************)
EXTENDS Integers, Sequences, FiniteSets, TLC

\* ------------------------------------------------------------------ bounds
\* Fixed-point resolution: units per 1.0.
SCALE == 1000
\* Longest series (number of rows of the input table).
MaxN == 10
\* Largest number of candidate columns in the input table.
MaxCand == 2

\* ------------------------------------------------------- program constants
\* "if N < 9" in rmse.
MinPoints == 9

\* --------------------------------------------------------- float64 values
F(v) == [k |-> "fin", v |-> v]
NaN == [k |-> "nan", v |-> 0]
PInf == [k |-> "inf", v |-> 1]
NInf == [k |-> "inf", v |-> -1]
\* Python's None, and a name not yet bound.
None == [k |-> "none", v |-> 0]
\* The float64 of a Python int.
FInt(n) == F(n * SCALE)

Sign(x) == IF x > 0 THEN 1 ELSE IF x < 0 THEN -1 ELSE 0
Abs(x) == IF x < 0 THEN -x ELSE x
\* Integer quotient rounded toward zero (b > 0).
TruncDiv(a, b) == IF a >= 0 THEN a \div b ELSE -((-a) \div b)

RECURSIVE ISqrtIter(_, _)
ISqrtIter(x, r) ==
  LET r2 == (r + x \div r) \div 2
  IN IF r2 >= r THEN r ELSE ISqrtIter(x, r2)
\* floor of the square root of a natural number
ISqrt(x) == IF x = 0 THEN 0 ELSE ISqrtIter(x, x)

FNeg(a) ==
  IF a.k = "nan" THEN NaN ELSE [k |-> a.k, v |-> -a.v]

FAdd(a, b) ==
  IF a.k = "nan" \/ b.k = "nan" THEN NaN
  ELSE IF a.k = "inf" /\ b.k = "inf" THEN (IF a.v = b.v THEN a ELSE NaN)
  ELSE IF a.k = "inf" THEN a
  ELSE IF b.k = "inf" THEN b
  ELSE F(a.v + b.v)

FSub(a, b) == FAdd(a, FNeg(b))

FMul(a, b) ==
  IF a.k = "nan" \/ b.k = "nan" THEN NaN
  ELSE IF a.k = "inf" \/ b.k = "inf"
       THEN (IF Sign(a.v) * Sign(b.v) = 0 THEN NaN
             ELSE [k |-> "inf", v |-> Sign(a.v) * Sign(b.v)])
  ELSE F(TruncDiv(a.v * b.v, SCALE))

\* numpy division: x/0 is +-inf, 0/0 is nan (a RuntimeWarning, no exception).
FDiv(a, b) ==
  IF a.k = "nan" \/ b.k = "nan" THEN NaN
  ELSE IF a.k = "inf" /\ b.k = "inf" THEN NaN
  ELSE IF a.k = "inf" THEN [k |-> "inf", v |-> a.v * (IF b.v < 0 THEN -1 ELSE 1)]
  ELSE IF b.k = "inf" THEN F(0)
  ELSE IF b.v = 0
       THEN (IF a.v = 0 THEN NaN ELSE [k |-> "inf", v |-> Sign(a.v)])
  ELSE F(Sign(b.v) * TruncDiv(a.v * SCALE, Abs(b.v)))

\* numpy sqrt: nan for a negative argument (a RuntimeWarning, no exception).
FSqrt(a) ==
  IF a.k = "nan" THEN NaN
  ELSE IF a.k = "inf" THEN (IF a.v > 0 THEN PInf ELSE NaN)
  ELSE IF a.v < 0 THEN NaN
  ELSE F(ISqrt(a.v * SCALE))

FAbs(a) ==
  IF a.k = "nan" THEN NaN ELSE [k |-> a.k, v |-> Abs(a.v)]

\* a < b on float64: False whenever an operand is nan.
FLess(a, b) ==
  IF a.k = "nan" \/ b.k = "nan" THEN FALSE
  ELSE IF a.k = "inf" /\ b.k = "inf" THEN a.v < b.v
  ELSE IF a.k = "inf" THEN a.v < 0
  ELSE IF b.k = "inf" THEN b.v > 0
  ELSE a.v < b.v

\* ------------------------------------------------------------ numpy arrays
\* A one-dimensional array is a sequence of float64 values.
\* Two shapes broadcast when they are equal or one of them is 1.
Broadcastable(X, Y) == Len(X) = Len(Y) \/ Len(X) = 1 \/ Len(Y) = 1

BLen(X, Y) == IF Len(X) >= Len(Y) THEN Len(X) ELSE Len(Y)
At(X, n) == IF Len(X) = 1 THEN X[1] ELSE X[n]

\* X - Y, elementwise with broadcasting.
VSub(X, Y) == [n \in 1..BLen(X, Y) |-> FSub(At(X, n), At(Y, n))]
\* X - c for a scalar c.
VSubS(X, c) == [n \in 1..Len(X) |-> FSub(X[n], c)]
\* X**2
VSquare(X) == [n \in 1..Len(X) |-> FMul(X[n], X[n])]
\* np.abs(X)
VAbs(X) == [n \in 1..Len(X) |-> FAbs(X[n])]
\* X * Y elementwise (equal lengths)
VMul(X, Y) == [n \in 1..Len(X) |-> FMul(X[n], Y[n])]

RECURSIVE SumTo(_, _)
SumTo(X, n) == IF n = 0 THEN F(0) ELSE FAdd(SumTo(X, n - 1), X[n])
\* np.sum(X)
VSum(X) == SumTo(X, Len(X))
\* X.mean()
VMean(X) == FDiv(VSum(X), FInt(Len(X)))

\* ---------------------------------------------------------------- outcomes
\* What a call gives back: a returned tuple, a returned None (with the line
\* it printed), or a raised exception.
Value(t) == [kind |-> "value", val |-> t, exc |-> "", out |-> <<>>]
ReturnsNone(line) == [kind |-> "none", val |-> <<>>, exc |-> "", out |-> <<line>>]
Raises(e) == [kind |-> "raise", val |-> <<>>, exc |-> e, out |-> <<>>]

\* ----------------------------------------------------------- the metrics
\* The literal 1.96.
C196 == F((196 * SCALE) \div 100)

\* 1.96*np.sqrt(2.0)/np.sqrt(N-1)
KFactor(N) == FDiv(FMul(C196, FSqrt(FInt(2))), FSqrt(FInt(N - 1)))

\* est * (1.0 - np.sqrt(1 - k))
LowerError(est, N) == FMul(est, FSub(FInt(1), FSqrt(FSub(FInt(1), KFactor(N)))))

\* est * (np.sqrt(1 + k) - 1)
UpperError(est, N) == FMul(est, FSub(FSqrt(FAdd(FInt(1), KFactor(N))), FInt(1)))

\* np.sqrt(((X - Y)**2).mean())
RmsePoint(X, Y) == FSqrt(VMean(VSquare(VSub(X, Y))))

rmse(X, Y) ==
  LET N == Len(X)
  IN IF N < MinPoints
     THEN ReturnsNone([t |-> "not_enough_points", N |-> N])
     ELSE IF ~Broadcastable(X, Y) THEN Raises("ValueError")
     ELSE LET r == RmsePoint(X, Y)
          IN Value(<<r, LowerError(r, N), UpperError(r, N)>>)

\* np.abs(X - Y).mean()
MaePoint(X, Y) == VMean(VAbs(VSub(X, Y)))

mae(X, Y) ==
  LET N == Len(X)
  IN IF ~Broadcastable(X, Y) THEN Raises("ValueError")
     ELSE LET m == MaePoint(X, Y)
          IN Value(<<m, LowerError(m, N), UpperError(m, N)>>)

\* np.sqrt(np.sum((X-X_hat)**2)/N)
stdevp(X, X_hat, N) == FSqrt(FDiv(VSum(VSquare(VSubS(X, X_hat))), FInt(N)))

me(X, Y) ==
  LET N == Len(X)
  IN IF ~Broadcastable(X, Y) THEN Raises("ValueError")
     ELSE LET error == VSub(X, Y)
              m == VMean(error)
              s_N == stdevp(error, m, N)
              e == FDiv(FMul(C196, s_N), FSqrt(FInt(N)))
          IN Value(<<m, e>>)

\* np.corrcoef(x, y)[0][1]: the covariance (ddof = 1) divided by both standard
\* deviations and clipped to [-1, 1]; nan when a variance is zero or N = 1.
corrcoef(x, y) ==
  LET fact == FInt(Len(x) - 1)
      cx == VSubS(x, VMean(x))
      cy == VSubS(y, VMean(y))
      cxy == FDiv(VSum(VMul(cx, cy)), fact)
      cxx == FDiv(VSum(VMul(cx, cx)), fact)
      cyy == FDiv(VSum(VMul(cy, cy)), fact)
      r == FDiv(FDiv(cxy, FSqrt(cxx)), FSqrt(cyy))
  IN IF r.k = "nan" THEN NaN
     ELSE IF FLess(FInt(1), r) THEN FInt(1)
     ELSE IF FLess(r, FInt(-1)) THEN FInt(-1)
     ELSE r

\* ------------------------------------------------------------- the inputs
\* The table read from the csv file: a REF column and the candidate columns,
\* all of the same length.  A candidate is the reference itself, the reference
\* shifted by 1 or by 5, the reference with alternating errors of +1 and -1,
\* a constant column, or the reference shifted by the smallest positive
\* number the arithmetic has (whose square underflows to 0, as the square of
\* a float64 below about 1e-162 does).
RefShapes == {"ramp", "skew"}
CandKinds == {"same", "plus1", "plus5", "noisy", "flat", "tiny"}

RefSeries(shape, len) ==
  [k \in 1..len |-> FInt(IF shape = "ramp" \/ k < len THEN
                           (IF shape = "ramp" THEN k ELSE 1)
                         ELSE len)]

CandSeries(kind, r) ==
  [k \in 1..Len(r) |->
     CASE kind = "same" -> r[k]
       [] kind = "plus1" -> FAdd(r[k], FInt(1))
       [] kind = "plus5" -> FAdd(r[k], FInt(5))
       [] kind = "noisy" -> FAdd(r[k], FInt(IF k % 2 = 1 THEN 1 ELSE -1))
       [] kind = "tiny" -> FAdd(r[k], F(1))
       [] OTHER -> FInt(3)]

\* Header names of the candidate columns; one of them may itself be "null".
ColumnNames == <<"A", "B", "C", "D", "E", "F">>
ColumnName(c, nullCol) == IF c = nullCol THEN "null" ELSE ColumnNames[c]

KindSeqs == UNION { [1..m -> CandKinds] : m \in 0..MaxCand }

Table(shape, len, kinds, nullCol) ==
  [REF |-> RefSeries(shape, len),
   names |-> [c \in 1..Len(kinds) |-> ColumnName(c, nullCol)],
   cols |-> [c \in 1..Len(kinds) |-> CandSeries(kinds[c], RefSeries(shape, len))]]

\* ------------------------------------------------------------- the driver
VARIABLES
  data,          \* the table read from the file (never modified)
  pc,            \* where the script is
  ref, n,
  methods, method_data, nm,
  rmse_list, lower_error, upper_error,
  mae_list, mae_lower, mae_upper,
  me_list, me_lower, me_upper,
  i, j,          \* loop indices, counted from 1
  lower, upper, r_ij,
  stdout,        \* the lines printed so far
  err            \* the uncaught exception that ended the script, or ""

dvars == <<data, pc, ref, n, methods, method_data, nm,
           rmse_list, lower_error, upper_error, mae_list, mae_lower, mae_upper,
           me_list, me_lower, me_upper, i, j, lower, upper, r_ij, stdout, err>>

\* Calls of rmse, mae and me made directly by a caller of the module.
VARIABLES cX, cY, cres

cvars == <<cX, cY, cres>>
vars == <<dvars, cvars>>

NotCalled == [kind |-> "pending", val |-> <<>>, exc |-> "", out |-> <<>>]

\* The script after the table is read and the candidate columns are listed.
DriverStart(t) ==
  /\ data = t
  /\ pc = "null_method"
  /\ ref = t.REF
  /\ n = Len(t.REF)
  /\ methods = t.names
  /\ method_data = t.cols
  /\ nm = Len(t.names)
  /\ rmse_list = None /\ lower_error = None /\ upper_error = None
  /\ mae_list = None /\ mae_lower = None /\ mae_upper = None
  /\ me_list = None /\ me_lower = None /\ me_upper = None
  /\ i = 0 /\ j = 0
  /\ lower = None /\ upper = None /\ r_ij = None
  /\ stdout = <<>>
  /\ err = ""

NoCalls ==
  /\ cX = <<>> /\ cY = <<>>
  /\ cres = [f \in {"rmse", "mae", "me"} |-> NotCalled]

Init ==
  /\ \E shape \in RefShapes, len \in 1..MaxN, kinds \in KindSeqs :
       \E nullCol \in 0..Len(kinds) :
         DriverStart(Table(shape, len, kinds, nullCol))
  /\ NoCalls

\* np.median(r): the middle value of the sorted array (the mean of the two
\* middle values when the length is even).
KthSmallest(r, k) ==
  CHOOSE x \in {r[q] : q \in 1..Len(r)} :
    /\ Cardinality({q \in 1..Len(r) : FLess(r[q], x)}) < k
    /\ Cardinality({q \in 1..Len(r) : ~FLess(x, r[q])}) >= k
NullValueMedian(r) ==
  IF Len(r) % 2 = 1 THEN KthSmallest(r, (Len(r) + 1) \div 2)
  ELSE FDiv(FAdd(KthSmallest(r, Len(r) \div 2), KthSmallest(r, Len(r) \div 2 + 1)),
            FInt(2))

\* "median = ref.mean()": the value of the null method.
NullValue(r) == VMean(r)

\* Create the null method, and the empty result lists.
AppendNull ==
  /\ pc = "null_method"
  /\ methods' = Append(methods, "null")
  /\ method_data' = Append(method_data, [k \in 1..Len(ref) |-> NullValue(ref)])
  /\ nm' = nm + 1
  /\ rmse_list' = <<>> /\ lower_error' = <<>> /\ upper_error' = <<>>
  /\ mae_list' = <<>> /\ mae_lower' = <<>> /\ mae_upper' = <<>>
  /\ me_list' = <<>> /\ me_lower' = <<>> /\ me_upper' = <<>>
  /\ i' = 1
  /\ pc' = "metrics"
  /\ UNCHANGED <<data, ref, n, j, lower, upper, r_ij, stdout, err>>
  /\ UNCHANGED cvars

\* One pass of "for i in xrange(nm)": the three metrics of method i.
\* Unpacking a returned None raises TypeError; an exception ends the script.
MetricStep ==
  /\ pc = "metrics"
  /\ i <= nm
  /\ LET mdata == method_data[i]
         a == rmse(mdata, ref)
         b == mae(mdata, ref)
         c == me(mdata, ref)
         failed == IF a.kind # "value" THEN a
                   ELSE IF b.kind # "value" THEN b
                   ELSE IF c.kind # "value" THEN c
                   ELSE NotCalled
     IN /\ stdout' = stdout \o a.out
        /\ IF failed.kind # "pending"
           THEN /\ pc' = "crashed"
                /\ err' = IF failed.kind = "none" THEN "TypeError" ELSE failed.exc
                /\ UNCHANGED <<rmse_list, lower_error, upper_error, mae_list,
                               mae_lower, mae_upper, me_list, me_lower, me_upper, i>>
           ELSE /\ rmse_list' = Append(rmse_list, a.val[1])
                /\ lower_error' = Append(lower_error, a.val[2])
                /\ upper_error' = Append(upper_error, a.val[3])
                /\ mae_list' = Append(mae_list, b.val[1])
                /\ mae_lower' = Append(mae_lower, b.val[2])
                /\ mae_upper' = Append(mae_upper, b.val[3])
                /\ me_list' = Append(me_list, c.val[1])
                /\ me_lower' = Append(me_lower, c.val[2])
                /\ me_upper' = Append(me_upper, c.val[2])
                /\ i' = i + 1
                /\ pc' = IF i + 1 > nm THEN "header" ELSE "metrics"
                /\ err' = err
  /\ UNCHANGED <<data, ref, n, methods, method_data, nm, j, lower, upper, r_ij>>
  /\ UNCHANGED cvars

\* An inner loop that starts at i itself.
InnerStartSelf(a) == a

\* "for j in xrange(i+1, nm)": the first j of the inner loop.
InnerStart(a) == a + 1

\* The first pair the nested loops visit with the outer index at least a;
\* <<0, 0>> when the loops are over.
RECURSIVE FirstPairFrom(_, _)
FirstPairFrom(a, m) ==
  IF a > m THEN <<0, 0>>
  ELSE IF InnerStart(a) <= m THEN <<a, InnerStart(a)>>
  ELSE FirstPairFrom(a + 1, m)

\* The pair visited after <<a, b>>.
NextPair(a, b, m) == IF b + 1 <= m THEN <<a, b + 1>> ELSE FirstPairFrom(a + 1, m)

\* Print the table header and enter the pairwise loops.
PrintHeader ==
  /\ pc = "header"
  /\ stdout' = Append(stdout, [t |-> "header"])
  /\ LET p == FirstPairFrom(1, nm)
     IN /\ i' = p[1]
        /\ j' = p[2]
        /\ pc' = IF p = <<0, 0>> THEN "plots" ELSE "pairs"
  /\ UNCHANGED <<data, ref, n, methods, method_data, nm,
                 rmse_list, lower_error, upper_error, mae_list, mae_lower, mae_upper,
                 me_list, me_lower, me_upper, lower, upper, r_ij, err>>
  /\ UNCHANGED cvars

\* The choice with the comparison turned round.
PickBoundsSwapped(a, b) ==
  IF FLess(rmse_list[a], rmse_list[b])
  THEN <<lower_error[a], upper_error[b]>>
  ELSE <<lower_error[b], upper_error[a]>>

\* "if rmse_i > rmse_j: ... else: ...": <<lower, upper>>.
PickBounds(a, b) ==
  IF FLess(rmse_list[b], rmse_list[a])
  THEN <<lower_error[a], upper_error[b]>>
  ELSE <<lower_error[b], upper_error[a]>>

\* np.sqrt(upper**2 + lower**2 - 2.0*r_ij*upper*lower)
CompError(u, l, r) ==
  FSqrt(FSub(FAdd(FMul(u, u), FMul(l, l)),
             FMul(FMul(FMul(FInt(2), r), u), l)))

\* The comparison turned round: comp_error < abs(rmse_i - rmse_j).
SignificanceReversed(rmse_i, rmse_j, comp_error) ==
  FLess(comp_error, FAbs(FSub(rmse_i, rmse_j)))

\* The comparison made non-strict: abs(rmse_i - rmse_j) <= comp_error.
SignificanceLeq(rmse_i, rmse_j, comp_error) ==
  \/ FLess(FAbs(FSub(rmse_i, rmse_j)), comp_error)
  \/ (comp_error.k = "fin" /\ FAbs(FSub(rmse_i, rmse_j)) = comp_error)

\* abs(rmse_i - rmse_j) < comp_error
Significance(rmse_i, rmse_j, comp_error) ==
  FLess(FAbs(FSub(rmse_i, rmse_j)), comp_error)

\* One pass of the inner loop: compare methods i and j and print the line.
\* The printed line is recorded together with the pass's loop indices and its
\* locals lower, upper and r_ij.
PairStep ==
  /\ pc = "pairs"
  /\ LET rmse_i == rmse_list[i]
         rmse_j == rmse_list[j]
         r == corrcoef(method_data[i], method_data[j])
         lu == PickBounds(i, j)
         comp_error == CompError(lu[2], lu[1], r)
         p == NextPair(i, j, nm)
     IN /\ r_ij' = r
        /\ lower' = lu[1]
        /\ upper' = lu[2]
        /\ stdout' = Append(stdout,
             [t |-> "row", i |-> i, j |-> j, m_i |-> methods[i], m_j |-> methods[j],
              rmse_i |-> rmse_i, rmse_j |-> rmse_j, diff |-> FSub(rmse_i, rmse_j),
              lower |-> lu[1], upper |-> lu[2], r_ij |-> r,
              comp_error |-> comp_error,
              significance |-> Significance(rmse_i, rmse_j, comp_error)])
        /\ i' = p[1]
        /\ j' = p[2]
        /\ pc' = IF p = <<0, 0>> THEN "plots" ELSE "pairs"
  /\ UNCHANGED <<data, ref, n, methods, method_data, nm,
                 rmse_list, lower_error, upper_error, mae_list, mae_lower, mae_upper,
                 me_list, me_lower, me_upper, err>>
  /\ UNCHANGED cvars

\* The three error-bar plots are drawn and saved; the script ends.
Plots ==
  /\ pc = "plots"
  /\ pc' = "done"
  /\ UNCHANGED <<data, ref, n, methods, method_data, nm,
                 rmse_list, lower_error, upper_error, mae_list, mae_lower, mae_upper,
                 me_list, me_lower, me_upper, i, j, lower, upper, r_ij, stdout, err>>
  /\ UNCHANGED cvars

Next == AppendNull \/ MetricStep \/ PrintHeader \/ PairStep \/ Plots

Spec == Init /\ [][Next]_vars

\* ------------------------------------------------------- direct calls
\* A caller hands two arrays, of any two lengths, to the three functions.
CallInit ==
  /\ DriverStart(Table("ramp", 1, <<>>, 0))
  /\ \E shape \in RefShapes, lx \in 1..MaxN, ly \in 1..MaxN, kind \in CandKinds :
       /\ cX = CandSeries(kind, RefSeries(shape, lx))
       /\ cY = RefSeries(shape, ly)
  /\ cres = [f \in {"rmse", "mae", "me"} |-> NotCalled]

CallRmse ==
  /\ cres["rmse"].kind = "pending"
  /\ cres' = [cres EXCEPT !["rmse"] = rmse(cX, cY)]
  /\ UNCHANGED <<cX, cY>>
  /\ UNCHANGED dvars

CallMae ==
  /\ cres["mae"].kind = "pending"
  /\ cres' = [cres EXCEPT !["mae"] = mae(cX, cY)]
  /\ UNCHANGED <<cX, cY>>
  /\ UNCHANGED dvars

CallMe ==
  /\ cres["me"].kind = "pending"
  /\ cres' = [cres EXCEPT !["me"] = me(cX, cY)]
  /\ UNCHANGED <<cX, cY>>
  /\ UNCHANGED dvars

CallNext == CallRmse \/ CallMae \/ CallMe

CallSpec == CallInit /\ [][CallNext]_vars

\* ================================================================ claims
\* The comparison lines printed so far, in the order printed.
Rows == SelectSeq(stdout, LAMBDA e : e.t = "row")
RowIx == 1..Len(Rows)
\* The metric loop has made its first call of rmse.
MetricsStarted == pc \notin {"null_method", "metrics"} \/ (pc = "metrics" /\ i > 1)
\* The registry is built: the script is in or past the metric loop.
RegistryBuilt == pc # "null_method"

\* C1: rmse with N < 9 fails with a reported InsufficientSamples condition; a
\* driver run over such data surfaces that failure instead of crashing on the
\* missing result.
C1_InsufficientSamplesSurfaced ==
  (n < 9 /\ MetricsStarted) => (pc = "crashed" /\ err = "InsufficientSamples")

\* C2: mae(X, Y) with N < 9 raises InsufficientSamples and never returns a
\* (mae, le, ue) triple.
C2_MaeInsufficientSamples ==
  (cres["mae"].kind # "pending" /\ Len(cX) < 9 /\ Len(cX) = Len(cY))
    => (cres["mae"].kind = "raise" /\ cres["mae"].exc = "InsufficientSamples")

\* The scenario of C3: reference 1..10, B the reference itself, C the
\* reference plus 5; a line that compares B and C.
Ramp10 == [k \in 1..10 |-> FInt(k)]
Ramp10Plus5 == [k \in 1..10 |-> FInt(k + 5)]
IsBC(row) ==
  /\ ref = Ramp10
  /\ \/ (method_data[row.i] = Ramp10 /\ method_data[row.j] = Ramp10Plus5)
     \/ (method_data[row.i] = Ramp10Plus5 /\ method_data[row.j] = Ramp10)

\* C3 as stated: the boolean printed for the pair (B, C) is True.
C3_VerdictTrue ==
  \A k \in RowIx : IsBC(Rows[k]) => Rows[k].significance = TRUE

\* C3 as amended: the boolean printed for the pair (B, C), in the column
\* headed "same?", is False: the RMSE difference of 5.0 is not below the
\* compatible error, so the difference is judged significant.
C3_VerdictFalseMeansSignificant ==
  \A k \in RowIx : IsBC(Rows[k]) =>
    /\ Rows[k].significance = FALSE
    /\ Abs(Rows[k].diff.v) = 5 * SCALE
    /\ Rows[k].comp_error.k = "fin"
    /\ Rows[k].comp_error.v < 5 * SCALE

C3_Witness == \E k \in RowIx : IsBC(Rows[k])

\* C4: for every pair processed, lower is the lower error of the method with
\* the larger RMSE and upper is the upper error of the method with the smaller
\* RMSE, whichever of i and j is the worse; the two values come from the two
\* different methods, also when the RMSEs are equal.
C4_DirectionalBounds ==
  \A k \in RowIx :
    LET a == Rows[k].i
        b == Rows[k].j
        iw == Rows[k].lower = lower_error[a] /\ Rows[k].upper = upper_error[b]
        jw == Rows[k].lower = lower_error[b] /\ Rows[k].upper = upper_error[a]
    IN /\ rmse_list[a].v > rmse_list[b].v => iw
       /\ rmse_list[b].v > rmse_list[a].v => jw
       /\ iw \/ jw

\* A run that has compared a pair whose first method is the worse, with
\* bounds that tell the two methods apart, and a pair of two different
\* methods with equal, nonzero RMSEs.
C4_Witness ==
  /\ \E k \in RowIx :
       /\ rmse_list[Rows[k].i].v > rmse_list[Rows[k].j].v
       /\ lower_error[Rows[k].i] # lower_error[Rows[k].j]
       /\ upper_error[Rows[k].i] # upper_error[Rows[k].j]
  /\ \E k \in RowIx :
       /\ rmse_list[Rows[k].i].v = rmse_list[Rows[k].j].v
       /\ rmse_list[Rows[k].i].v > 0
       /\ Rows[k].i # Rows[k].j

\* C5: the printed boolean says "not significant" exactly when
\* |rmse_i - rmse_j| is strictly below the compatible error; in every other
\* case, equality included, the pair is declared significant.
C5_StrictlyLess ==
  \A k \in RowIx :
    Rows[k].significance <=>
      (/\ Rows[k].comp_error.k = "fin"
       /\ Abs(Rows[k].rmse_i.v - Rows[k].rmse_j.v) < Rows[k].comp_error.v)

\* Two methods with RMSE 0 and compatible error 0: both sides are equal.
C5_Witness ==
  \E k \in RowIx :
    /\ Rows[k].comp_error = F(0)
    /\ Rows[k].rmse_i = F(0) /\ Rows[k].rmse_j = F(0)
    /\ Rows[k].significance = FALSE

\* C6: the pairwise loop prints one line per unordered pair of the M registry
\* entries, M*(M-1)/2 in all, each with i < j, in increasing i and, for equal
\* i, increasing j.
C6_PairEnumeration ==
  /\ \A k \in RowIx :
       /\ 1 <= Rows[k].i /\ Rows[k].i < Rows[k].j /\ Rows[k].j <= nm
       /\ Rows[k].m_i = methods[Rows[k].i] /\ Rows[k].m_j = methods[Rows[k].j]
  /\ \A k \in RowIx : k > 1 =>
       \/ Rows[k - 1].i < Rows[k].i
       \/ (Rows[k - 1].i = Rows[k].i /\ Rows[k - 1].j < Rows[k].j)
  /\ pc \in {"plots", "done"} => 2 * Len(Rows) = nm * (nm - 1)

C6_Witness == pc = "done" /\ nm = 3 /\ Len(Rows) = 3

\* C7: when the correlation of a pair is undefined (nan), the verdict of the
\* pair is flagged as indeterminate and is not a plain boolean.
C7_IndeterminateFlagged ==
  \A k \in RowIx :
    Rows[k].r_ij.k = "nan" => Rows[k].significance \notin BOOLEAN

\* C8: rmse, mae and me called with X and Y of different lengths fail fast
\* and return no value, whatever the two lengths.
C8_LengthMismatchFails ==
  \A f \in {"rmse", "mae", "me"} :
    (cres[f].kind # "pending" /\ Len(cX) # Len(cY)) => cres[f].kind = "raise"

\* The registry keeps the candidates in input order, ends with the appended
\* "null" method whose series is the reference's mean at every index, and its
\* three parts stay aligned: M candidates give M + 1 entries.
RegistryShape ==
  LET M == Len(data.names)
      S == SumTo(ref, Len(ref)).v
  IN /\ Len(methods) = M + 1 /\ Len(method_data) = M + 1 /\ nm = M + 1
     /\ \A c \in 1..M : methods[c] = data.names[c] /\ method_data[c] = data.cols[c]
     /\ methods[nm] = "null"
     /\ Len(method_data[nm]) = Len(ref)
     /\ \A k \in 1..Len(ref) :
          /\ method_data[nm][k].k = "fin"
          /\ Len(ref) * method_data[nm][k].v <= S
          /\ S < Len(ref) * (method_data[nm][k].v + 1)

NullCount == Cardinality({c \in 1..Len(methods) : methods[c] = "null"})

C10_RmseAtLeastMae ==
  (/\ cres["rmse"].kind = "value" /\ cres["mae"].kind = "value"
   /\ Len(cX) = Len(cY))
    => /\ cres["rmse"].val[1].k = "fin" /\ cres["mae"].val[1].k = "fin"
       /\ cres["rmse"].val[1].v >= cres["mae"].val[1].v

====
